---- MODULE Spec2Model ----
(***************************************************************************)
(* Model of the learn-browser HTTP client: one request/response exchange   *)
(* driven by make_request_with_socket / request (src/src/url.rs) over the  *)
(* Socket trait, with its two implementations TestSocket (the scripted     *)
(* test double of url.rs) and HttpSocket (src/src/socket.rs).              *)
(*                                                                         *)
(* Text is a sequence of one-character strings, so that splitting,         *)
(* trimming, case folding and number parsing are computed, not assumed.    *)
(***************************************************************************)
EXTENDS Integers, Sequences, FiniteSets, TLC

VARIABLES
    entry,                \* "test": make_request_with_socket(TestSocket); "request": request(url)
    url,                  \* Url {scheme, host, path}
    pc,                   \* position in request / make_request_with_socket
    connect_should_fail,  \* TestSocket field
    send_should_fail,     \* TestSocket field
    response_lines,       \* TestSocket field: the scripted lines
    current_line_index,   \* TestSocket field: number of lines consumed
    connect_calls,        \* TestSocket field: log of (host, port)
    send_calls,           \* TestSocket field: log of the data sent
    stream,               \* HttpSocket: the bytes the peer delivers before closing
    pos,                  \* HttpSocket: number of bytes of stream consumed
    tcp_connects,         \* (host, port) pairs given to TcpStream::connect
    trace,                \* history of the Socket trait calls made by the engine
    version,              \* local of make_request_with_socket
    status,               \* local of make_request_with_socket
    explanation,          \* local of make_request_with_socket
    headers,              \* local of make_request_with_socket
    result,               \* what the entry point returned
    raw_url,              \* argument of Url::new
    parsed,               \* what Url::new returned
    text,                 \* argument of strip_html_tags
    stripped              \* what strip_html_tags returned

vars == <<entry, url, pc, connect_should_fail, send_should_fail, response_lines,
          current_line_index, connect_calls, send_calls, stream, pos,
          tcp_connects, trace, version, status, explanation, headers, result,
          raw_url, parsed, text, stripped>>

\* the variables of the pure functions Url::new and strip_html_tags
pure == <<raw_url, parsed, text, stripped>>

\* the variables of one request
request_vars == <<url, connect_should_fail, send_should_fail, response_lines,
                  current_line_index, connect_calls, send_calls, tcp_connects,
                  version, status, explanation, headers, result>>

-----------------------------------------------------------------------------
(* Bounds of the model *)

\* longest header block (lines between the status line and the terminator/EOF)
MaxHeaderLines == 2

\* longest byte stream given to an HttpSocket exercised on its own
MaxStreamLen == 4

\* most read calls made on an HttpSocket exercised on its own
MaxSocketCalls == 3

-----------------------------------------------------------------------------
(* Text helpers: the std string operations the code uses *)

CR == "\r"
LF == "\n"
CRLF == <<CR, LF>>

Upper == <<"A","B","C","D","E","F","G","H","I","J","K","L","M",
           "N","O","P","Q","R","S","T","U","V","W","X","Y","Z">>
Lower == <<"a","b","c","d","e","f","g","h","i","j","k","l","m",
           "n","o","p","q","r","s","t","u","v","w","x","y","z">>
Digits == <<"0","1","2","3","4","5","6","7","8","9">>

IndexIn(c, tbl) ==
    IF \E i \in 1..Len(tbl) : tbl[i] = c
    THEN CHOOSE i \in 1..Len(tbl) : tbl[i] = c
    ELSE 0

\* char::to_lowercase on the characters of the model's alphabet
ToLowerChar(c) == IF IndexIn(c, Upper) > 0 THEN Lower[IndexIn(c, Upper)] ELSE c

\* str::to_lowercase
ToLowercase(s) == [i \in 1..Len(s) |-> ToLowerChar(s[i])]

\* char::is_whitespace on the characters of the model's alphabet
IsWhitespace(c) == c \in {" ", "\t", "\r", "\n"}

RECURSIVE TrimStart(_)
TrimStart(s) ==
    IF Len(s) > 0 /\ IsWhitespace(s[1]) THEN TrimStart(Tail(s)) ELSE s

RECURSIVE TrimEnd(_)
TrimEnd(s) ==
    IF Len(s) > 0 /\ IsWhitespace(s[Len(s)])
    THEN TrimEnd(SubSeq(s, 1, Len(s) - 1))
    ELSE s

\* str::trim
Trim(s) == TrimEnd(TrimStart(s))

\* str::trim_end_matches("\r\n"): removes every trailing repetition of "\r\n"
RECURSIVE TrimEndMatchesCRLF(_)
TrimEndMatchesCRLF(s) ==
    IF Len(s) >= 2 /\ s[Len(s) - 1] = CR /\ s[Len(s)] = LF
    THEN TrimEndMatchesCRLF(SubSeq(s, 1, Len(s) - 2))
    ELSE s

\* str::find(c): 1-based index of the first occurrence of c, 0 for None
Find(s, c) ==
    IF \E i \in 1..Len(s) : s[i] = c
    THEN CHOOSE i \in 1..Len(s) : s[i] = c /\ \A j \in 1..(i - 1) : s[j] # c
    ELSE 0

\* str::split(c).collect(): always at least one (possibly empty) token
RECURSIVE Split(_, _)
Split(s, c) ==
    IF Find(s, c) = 0
    THEN <<s>>
    ELSE <<SubSeq(s, 1, Find(s, c) - 1)>> \o Split(SubSeq(s, Find(s, c) + 1, Len(s)), c)

\* [&str]::join(" ")
RECURSIVE Join(_, _)
Join(parts, c) ==
    IF Len(parts) = 0 THEN <<>>
    ELSE IF Len(parts) = 1 THEN parts[1]
    ELSE parts[1] \o <<c>> \o Join(Tail(parts), c)

\* concatenation of a sequence of texts
RECURSIVE Flatten(_)
Flatten(ls) == IF Len(ls) = 0 THEN <<>> ELSE ls[1] \o Flatten(Tail(ls))

U16Max == 65535

RECURSIVE DigitsValue(_)
DigitsValue(s) ==
    IF Len(s) = 0 THEN 0
    ELSE 10 * DigitsValue(SubSeq(s, 1, Len(s) - 1)) + (IndexIn(s[Len(s)], Digits) - 1)

AllDigits(s) == \A i \in 1..Len(s) : IndexIn(s[i], Digits) > 0

\* str::parse::<u16>(): an optional leading "+", then one or more decimal
\* digits, the value checked against u16::MAX (no wrapping).
ParseU16(s) ==
    LET body == IF Len(s) > 0 /\ s[1] = "+" THEN Tail(s) ELSE s
    IN  IF Len(body) > 0 /\ AllDigits(body) /\ DigitsValue(body) <= U16Max
        THEN [ok |-> TRUE, val |-> DigitsValue(body)]
        ELSE [ok |-> FALSE, val |-> 0]


-----------------------------------------------------------------------------
(* Inputs: the Urls requested and the responses a peer may deliver *)

Urls ==
    { [scheme |-> "Http", host |-> <<"e", "x">>, path |-> <<"/", "p">>],
      [scheme |-> "Https", host |-> <<"h">>, path |-> <<"/">>] }

\* first lines a peer may send
StatusLines ==
    { <<"V", " ", "2", "0", "0", " ", "O", "K", "\r", "\n">>,      \* "V 200 OK\r\n"
      <<"V", " ", "4", "0", "4", " ", "N", " ", "F", "\r", "\n">>,   \* "V 404 N F\r\n"   multi-word reason
      <<"V", " ", "A", "\r", "\n">>,                     \* "V A\r\n"         two tokens, second not numeric
      <<"V", " ", "7", "\r", "\n">>,                     \* "V 7\r\n"         two tokens, second numeric
      <<"V", " ", "A", " ", "K", "\r", "\n">>,           \* "V A K\r\n"       non-numeric code
      <<"V", " ", " ", "K", "\r", "\n">>,                \* "V  K\r\n"        doubled space: empty code
      <<"V", " ", "6", "5", "5", "3", "5", " ", "K", "\r", "\n">>,   \* "V 65535 K\r\n"
      <<"V", " ", "6", "5", "5", "3", "6", " ", "K", "\r", "\n">>,   \* "V 65536 K\r\n"
      <<"V", " ", "+", "7", " ", "K", "\r", "\n">>,      \* "V +7 K\r\n"      explicit plus sign
      <<"\r", "\n">>,                                    \* "\r\n"            empty line
      <<"V", " ", "7", " ", "K">>,                       \* "V 7 K"           no line terminator
      <<"V", " ", "7", " ", "\r", "\n">>,           \* "V 7 \r\n"        empty reason
      <<"V", " ", "7", " ", "N", " ", " ", "F", "\r", "\n">>,   \* "V 7 N  F\r\n"   doubled space in the reason
      <<"V", " ", "7", " ", "K", "\n">> }                \* "V 7 K\n"         bare newline

\* lines a peer may send in the header block
HeaderLines ==
    { <<"A", ":", "1", "\r", "\n">>,                \* "A:1\r\n"
      <<"a", ":", " ", "2", "\r", "\n">>,           \* "a: 2\r\n"
      <<" ", "B", " ", ":", " ", "u", ":", "v", " ", "\r", "\n">>,   \* " B : u:v \r\n"
      <<"n", "c", "\r", "\n">>,                     \* "nc\r\n"   no colon
      <<"\n">> }                                     \* "\n"       bare newline

\* what follows the header block: nothing (the peer closed), the terminator alone,
\* or the terminator and a body
Tails ==
    { <<>>,
      <<CRLF>>,
      <<CRLF, <<"x">>>>,
      <<CRLF, <<"b", ":", "1", "\r", "\n">>, CRLF, <<"<", "i", ">", "y">>>> }

RECURSIVE SeqsUpTo(_, _)
SeqsUpTo(S, n) ==
    IF n = 0 THEN {<<>>}
    ELSE LET shorter == SeqsUpTo(S, n - 1)
         IN  shorter \cup { Append(q, x) : q \in shorter, x \in S }

\* the scripted line sequences: nothing at all, or a first line, a header block
\* and a tail
Responses ==
    {<<>>} \cup
    { <<s>> \o hs \o t : s \in StatusLines, hs \in SeqsUpTo(HeaderLines, MaxHeaderLines), t \in Tails }

EmptyMap == [k \in {} |-> <<>>]

NoResponse == [version |-> <<>>, status |-> 0, explanation |-> <<>>,
               headers |-> EmptyMap, body |-> <<>>]

\* placeholder for the Url of a Result that holds none
NoUrl == [scheme |-> "", host |-> <<>>, path |-> <<>>]

\* Result<Url, String> of Url::new; the error is a text because it can quote the input
NoParse == [tag |-> "None", err |-> <<>>, url |-> NoUrl]
ParseErr(e) == [tag |-> "Err", err |-> e, url |-> NoUrl]
ParseOk(u) == [tag |-> "Ok", err |-> <<>>, url |-> u]

NoResult == [tag |-> "None", err |-> "", response |-> NoResponse]
Err(e) == [tag |-> "Err", err |-> e, response |-> NoResponse]
Ok(r) == [tag |-> "Ok", err |-> "", response |-> r]

\* TestSocket::with_response_lines
WithResponseLines(ls) ==
    [connect_should_fail |-> FALSE, send_should_fail |-> FALSE, response_lines |-> ls]

\* TestSocket::with_connect_failure
WithConnectFailure ==
    [connect_should_fail |-> TRUE, send_should_fail |-> FALSE, response_lines |-> <<>>]

\* TestSocket::with_send_failure
WithSendFailure ==
    [connect_should_fail |-> FALSE, send_should_fail |-> TRUE, response_lines |-> <<>>]

TestSockets ==
    { WithResponseLines(ls) : ls \in Responses } \cup {WithConnectFailure, WithSendFailure}

Init ==
    /\ url \in Urls
    /\ \/ /\ entry = "test"
          /\ \E ts \in TestSockets :
                /\ connect_should_fail = ts.connect_should_fail
                /\ send_should_fail = ts.send_should_fail
                /\ response_lines = ts.response_lines
          /\ stream = <<>>
       \/ /\ entry = "request"
          /\ connect_should_fail = FALSE
          /\ send_should_fail = FALSE
          /\ response_lines = <<>>
          /\ stream \in { Flatten(ls) : ls \in Responses }
    /\ pc = IF entry = "test" THEN "connect" ELSE "request"
    /\ current_line_index = 0
    /\ connect_calls = <<>>
    /\ send_calls = <<>>
    /\ pos = 0
    /\ tcp_connects = <<>>
    /\ trace = <<>>
    /\ version = <<>>
    /\ status = 0
    /\ explanation = <<>>
    /\ headers = EmptyMap
    /\ result = NoResult
    /\ raw_url = <<>>
    /\ parsed = NoParse
    /\ text = <<>>
    /\ stripped = <<>>


-----------------------------------------------------------------------------
(* The Socket implementations *)

\* ports written in request()
HttpPort == 80
HttpsPort == 443
\* port written in make_request_with_socket
EnginePort == 80

\* one Socket trait call as the engine observed it
Call(op, arg, r) == [op |-> op, arg |-> arg, ok |-> r.ok, err |-> r.err, out |-> r.out]

Success(out, next) == [ok |-> TRUE, err |-> "", out |-> out, next |-> next]
Failure(e, next) == [ok |-> FALSE, err |-> e, out |-> <<>>, next |-> next]

\* TestSocket::connect
TestSocketConnect ==
    IF connect_should_fail THEN Failure("Connection failed", 0) ELSE Success(<<>>, 0)

\* TestSocket::send
TestSocketSend ==
    IF send_should_fail THEN Failure("Send failed", 0) ELSE Success(<<>>, 0)

\* TestSocket::read_line
TestSocketReadLine ==
    IF current_line_index < Len(response_lines)
    THEN Success(response_lines[current_line_index + 1], current_line_index + 1)
    ELSE Failure("No more lines to read", current_line_index)

\* TestSocket::read_to_string
TestSocketReadToString ==
    Success(Flatten(SubSeq(response_lines, current_line_index + 1, Len(response_lines))),
            Len(response_lines))

\* HttpSocket::connect: the connection was made by connect_http / connect_https
HttpSocketConnect == Success(<<>>, 0)

\* HttpSocket::send: write_all succeeds or reports an I/O error
HttpSocketSend(ioerr) ==
    IF ioerr THEN Failure("Failed to send data", 0) ELSE Success(<<>>, 0)

\* Bytes and characters. A byte below 0x80 and the character it encodes are
\* written as the same one-character string; the bytes 0xC3 and 0xA9 stand for
\* the bytes from 0x80 on ("0xC3", "0xA9" is the UTF-8 encoding of U+00E9), and
\* a character from U+0080 on is written by its code point.
HighBytes == {"0xC3", "0xA9"}

\* `buffer[0] as char`: the character whose code point is the byte's value
ByteAsChar(b) ==
    IF b = "0xC3" THEN "U+00C3" ELSE IF b = "0xA9" THEN "U+00A9" ELSE b

\* the bytes a String holds for one character (UTF-8)
CharBytes(c) ==
    IF c = "U+00C3" THEN <<"0xC3", "0x83">>
    ELSE IF c = "U+00A9" THEN <<"0xC2", "0xA9">>
    ELSE IF c = "U+00E9" THEN <<"0xC3", "0xA9">>
    ELSE <<c>>

\* String::as_bytes: the bytes of a text
Utf8Encode(chars) == Flatten([i \in 1..Len(chars) |-> CharBytes(chars[i])])

\* str::from_utf8 accepts the bytes: every lead byte has its continuation byte,
\* and no continuation byte stands alone
RECURSIVE Utf8Valid(_)
Utf8Valid(bytes) ==
    IF Len(bytes) = 0 THEN TRUE
    ELSE IF bytes[1] = "0xC3"
    THEN Len(bytes) >= 2 /\ bytes[2] = "0xA9" /\ Utf8Valid(SubSeq(bytes, 3, Len(bytes)))
    ELSE IF bytes[1] = "0xA9" THEN FALSE
    ELSE Utf8Valid(Tail(bytes))

\* the text of bytes that are valid UTF-8
RECURSIVE Utf8Decode(_)
Utf8Decode(bytes) ==
    IF Len(bytes) = 0 THEN <<>>
    ELSE IF bytes[1] = "0xC3" THEN <<"U+00E9">> \o Utf8Decode(SubSeq(bytes, 3, Len(bytes)))
    ELSE <<bytes[1]>> \o Utf8Decode(Tail(bytes))

\* HttpSocketReadLine reporting every end of stream as an error, a partial line
\* included
HttpSocketReadLine_PartialIsEof(ioerr) ==
    LET rest == SubSeq(stream, pos + 1, Len(stream))
        n == Find(rest, LF)
    IN  IF ioerr THEN Failure("Failed to read line", pos)
        ELSE IF n = 0 THEN Failure("End of file reached", Len(stream))
        ELSE Success([i \in 1..n |-> ByteAsChar(rest[i])], pos + n)

\* HttpSocket::read_line: one byte at a time up to and including "\n", each byte
\* pushed as the character of its value; at end of stream an error if nothing was
\* read, the partial line otherwise
HttpSocketReadLine(ioerr) ==
    LET rest == SubSeq(stream, pos + 1, Len(stream))
        n == Find(rest, LF)
        line == IF n = 0 THEN rest ELSE SubSeq(rest, 1, n)
    IN  IF ioerr THEN Failure("Failed to read line", pos)
        ELSE IF Len(rest) = 0 THEN Failure("End of file reached", pos)
        ELSE Success([i \in 1..Len(line) |-> ByteAsChar(line[i])], pos + Len(line))

\* HttpSocket::read_to_string: everything up to the close of the stream, decoded
\* as UTF-8; bytes that are not valid UTF-8 are read and reported as an error
HttpSocketReadToString(ioerr) ==
    LET rest == SubSeq(stream, pos + 1, Len(stream))
    IN  IF ioerr THEN Failure("Failed to read to string", pos)
        ELSE IF ~Utf8Valid(rest)
        THEN Failure("Failed to read to string: stream did not contain valid UTF-8", Len(stream))
        ELSE Success(Utf8Decode(rest), Len(stream))

\* dispatch on the Socket implementation the entry point uses
SocketConnect(ioerr) == IF entry = "test" THEN TestSocketConnect ELSE HttpSocketConnect
SocketSend(ioerr) == IF entry = "test" THEN TestSocketSend ELSE HttpSocketSend(ioerr)
SocketReadLine(ioerr) == IF entry = "test" THEN TestSocketReadLine ELSE HttpSocketReadLine(ioerr)
SocketReadToString(ioerr) ==
    IF entry = "test" THEN TestSocketReadToString ELSE HttpSocketReadToString(ioerr)

\* the I/O outcomes the environment can produce: an HttpSocket operation may fail,
\* the test double fails only as scripted
IoErrs == IF entry = "test" THEN {FALSE} ELSE {FALSE, TRUE}

-----------------------------------------------------------------------------
(* The engine: make_request_with_socket *)

\* HttpRequest announcing HTTP/1.1
HttpRequest_Http11(u) ==
    <<"G", "E", "T", " ">> \o u.path \o <<" ", "H", "T", "T", "P", "/", "1", ".", "1", "\r", "\n", "H", "o", "s", "t", ":", " ">> \o u.host \o <<"\r", "\n", "\r", "\n">>

\* format!("GET {} HTTP/1.0\r\nHost: {}\r\n\r\n", url.path, url.host)
HttpRequest(u) ==
    <<"G", "E", "T", " ">> \o u.path \o <<" ", "H", "T", "T", "P", "/", "1", ".", "0", "\r", "\n", "H", "o", "s", "t", ":", " ">> \o u.host \o <<"\r", "\n", "\r", "\n">>

\* ParseStatusLine with the token-count test written `< 2`
ParseStatusLine_TwoTokens(raw) ==
    LET status_line == TrimEndMatchesCRLF(raw)
        status_parts == Split(status_line, " ")
    IN  IF Len(status_parts) < 2
        THEN [ok |-> FALSE, err |-> "Invalid HTTP status line",
              version |-> <<>>, status |-> 0, explanation |-> <<>>]
        ELSE IF ~ParseU16(status_parts[2]).ok
        THEN [ok |-> FALSE, err |-> "Invalid HTTP status code",
              version |-> <<>>, status |-> 0, explanation |-> <<>>]
        ELSE [ok |-> TRUE, err |-> "",
              version |-> status_parts[1],
              status |-> ParseU16(status_parts[2]).val,
              explanation |-> Join(SubSeq(status_parts, 3, Len(status_parts)), " ")]

\* ParseStatusLine keeping only the first word of the reason
ParseStatusLine_FirstReasonWord(raw) ==
    LET status_line == TrimEndMatchesCRLF(raw)
        status_parts == Split(status_line, " ")
    IN  IF Len(status_parts) < 3
        THEN [ok |-> FALSE, err |-> "Invalid HTTP status line",
              version |-> <<>>, status |-> 0, explanation |-> <<>>]
        ELSE IF ~ParseU16(status_parts[2]).ok
        THEN [ok |-> FALSE, err |-> "Invalid HTTP status code",
              version |-> <<>>, status |-> 0, explanation |-> <<>>]
        ELSE [ok |-> TRUE, err |-> "",
              version |-> status_parts[1],
              status |-> ParseU16(status_parts[2]).val,
              explanation |-> status_parts[3]]

\* the status-line block: trim, split, count, parse, join
ParseStatusLine(raw) ==
    LET status_line == TrimEndMatchesCRLF(raw)
        status_parts == Split(status_line, " ")
    IN  IF Len(status_parts) < 3
        THEN [ok |-> FALSE, err |-> "Invalid HTTP status line",
              version |-> <<>>, status |-> 0, explanation |-> <<>>]
        ELSE IF ~ParseU16(status_parts[2]).ok
        THEN [ok |-> FALSE, err |-> "Invalid HTTP status code",
              version |-> <<>>, status |-> 0, explanation |-> <<>>]
        ELSE [ok |-> TRUE, err |-> "",
              version |-> status_parts[1],
              status |-> ParseU16(status_parts[2]).val,
              explanation |-> Join(SubSeq(status_parts, 3, Len(status_parts)), " ")]

\* MapInsert keeping the entry a key already has
MapInsert_FirstWins(m, k, v) ==
    [x \in (DOMAIN m) \cup {k} |-> IF x \in DOMAIN m THEN m[x] ELSE v]

\* HashMap::insert
MapInsert(m, k, v) == [x \in (DOMAIN m) \cup {k} |-> IF x = k THEN v ELSE m[x]]

\* HeaderName without the case folding
HeaderName_NoFold(line, colon_pos) == Trim(SubSeq(line, 1, colon_pos - 1))

\* the key a header line is stored under
HeaderName(line, colon_pos) == ToLowercase(Trim(SubSeq(line, 1, colon_pos - 1)))

\* HeaderValue taking the text after the last colon of the line
HeaderValue_LastColon(line, colon_pos) ==
    LET last == CHOOSE k \in 1..Len(line) :
                   line[k] = ":" /\ \A n \in (k + 1)..Len(line) : line[n] # ":"
    IN  Trim(SubSeq(line, last + 1, Len(line)))

\* the value a header line is stored with
HeaderValue(line, colon_pos) == Trim(SubSeq(line, colon_pos + 1, Len(line)))

\* HeaderInsert storing a line without colon as a name with an empty value
HeaderInsert_NoColonIsKey(m, raw) ==
    LET line == TrimEndMatchesCRLF(raw)
        colon_pos == Find(line, ":")
    IN  IF colon_pos > 0
        THEN MapInsert(m, HeaderName(line, colon_pos), HeaderValue(line, colon_pos))
        ELSE MapInsert(m, ToLowercase(Trim(line)), <<>>)

\* the body of the header loop for a line that is not the terminator
HeaderInsert(m, raw) ==
    LET line == TrimEndMatchesCRLF(raw)
        colon_pos == Find(line, ":")
    IN  IF colon_pos > 0
        THEN MapInsert(m, HeaderName(line, colon_pos), HeaderValue(line, colon_pos))
        ELSE m

\* IsTerminator taking every blank line, however it is terminated, as the end of
\* the header block
IsTerminator_BlankLine(line) == Trim(line) = <<>>

\* the line that ends the header loop
IsTerminator(line) == line = CRLF

\* HeaderLoopExit as `while let Ok(line) = socket.read_line()`: a failed read ends
\* the loop instead of the request
HeaderLoopExit_EofBreaks(r) ==
    IF ~r.ok \/ IsTerminator(r.out) THEN "break" ELSE "continue"

\* how one iteration of the header loop ends: the ? returns, the break leaves the
\* loop, or the loop goes round again
HeaderLoopExit(r) ==
    IF ~r.ok THEN "return" ELSE IF IsTerminator(r.out) THEN "break" ELSE "continue"

\* request(): connect_http(&url.host, 80) / connect_https(&url.host, 443)
ProviderPort(u) == IF u.scheme = "Http" THEN HttpPort ELSE HttpsPort

\* the ways the provider construction can end
ProviderOutcomes(u) ==
    IF u.scheme = "Http"
    THEN {"", "Failed to connect"}
    ELSE {"", "Failed to connect", "Failed to create TLS connector",
          "Failed to establish TLS connection"}

Finish(r) ==
    /\ result' = r
    /\ pc' = "done"

\* ReadError naming the stage of the read that failed
ReadError_Staged(r) ==
    Err(IF pc = "status" THEN "Read failed in status line" ELSE "Read failed in headers")

\* ReadError with the transport's message replaced by one of the engine's own
ReadError_Rewrap(r) == Err("Connection closed before responding")

\* the ? operator on read_line: the transport's error is returned as it is
ReadError(r) == Err(r.err)

\* Try with the ? left out: the error is dropped and the engine goes on
Try_Swallow(r, nextpc) == pc' = nextpc /\ result' = result

\* Try making a failed call once more before giving up
Try_RetryOnce(r, nextpc) ==
    IF r.ok THEN pc' = nextpc /\ result' = result
    ELSE IF trace = <<>> \/ trace[Len(trace)].ok THEN pc' = pc /\ result' = result
    ELSE Finish(Err(r.err))

\* Try with the error replaced by a message of the engine's own
Try_Rewrap(r, nextpc) ==
    IF r.ok THEN pc' = nextpc /\ result' = result ELSE Finish(Err("Request failed"))

\* the ? operator on a transport call: Ok continues at nextpc, Err(e) returns Err(e)
\* (From<String> for String is the identity)
Try(r, nextpc) ==
    IF r.ok THEN pc' = nextpc /\ result' = result ELSE Finish(Err(r.err))

\* request(): the match on url.scheme up to the call of make_request_with_socket
RequestConnect ==
    /\ pc = "request"
    /\ tcp_connects' = Append(tcp_connects, <<url.host, ProviderPort(url)>>)
    /\ \E e \in ProviderOutcomes(url) :
          IF e = "" THEN pc' = "connect" /\ result' = result ELSE Finish(Err(e))
    /\ UNCHANGED pure
    /\ UNCHANGED <<entry, url, connect_should_fail, send_should_fail, response_lines,
                   current_line_index, connect_calls, send_calls, stream, pos, trace,
                   version, status, explanation, headers>>

\* socket.connect(&url.host, 80)?
Connect ==
    /\ pc = "connect"
    /\ \E ioerr \in IoErrs :
          LET r == SocketConnect(ioerr)
          IN  /\ trace' = Append(trace, Call("connect", <<url.host, EnginePort>>, r))
              /\ connect_calls' = IF entry = "test"
                                  THEN Append(connect_calls, <<url.host, EnginePort>>)
                                  ELSE connect_calls
              /\ Try(r, "send")
    /\ UNCHANGED pure
    /\ UNCHANGED <<entry, url, connect_should_fail, send_should_fail, response_lines,
                   current_line_index, send_calls, stream, pos, tcp_connects,
                   version, status, explanation, headers>>

\* socket.send(http_request.as_bytes())?
Send ==
    /\ pc = "send"
    /\ \E ioerr \in IoErrs :
          LET r == SocketSend(ioerr)
          IN  /\ trace' = Append(trace, Call("send", HttpRequest(url), r))
              /\ send_calls' = IF entry = "test"
                               THEN Append(send_calls, HttpRequest(url))
                               ELSE send_calls
              /\ Try(r, "status")
    /\ UNCHANGED pure
    /\ UNCHANGED <<entry, url, connect_should_fail, send_should_fail, response_lines,
                   current_line_index, connect_calls, stream, pos, tcp_connects,
                   version, status, explanation, headers>>

\* the cursor of the socket in use moves to next
Advance(next) ==
    IF entry = "test"
    THEN current_line_index' = next /\ pos' = pos
    ELSE pos' = next /\ current_line_index' = current_line_index

\* let status_line = socket.read_line()?; ... version, status, explanation
ReadStatusLine ==
    /\ pc = "status"
    /\ \E ioerr \in IoErrs :
          LET r == SocketReadLine(ioerr)
              p == ParseStatusLine(r.out)
          IN  /\ trace' = Append(trace, Call("read_line", <<>>, r))
              /\ Advance(r.next)
              /\ IF ~r.ok
                 THEN Finish(ReadError(r)) /\ UNCHANGED <<version, status, explanation>>
                 ELSE IF ~p.ok
                 THEN Finish(Err(p.err)) /\ UNCHANGED <<version, status, explanation>>
                 ELSE /\ version' = p.version
                      /\ status' = p.status
                      /\ explanation' = p.explanation
                      /\ pc' = "headers"
                      /\ result' = result
    /\ UNCHANGED pure
    /\ UNCHANGED <<entry, url, connect_should_fail, send_should_fail, response_lines,
                   connect_calls, send_calls, stream, tcp_connects, headers>>

\* one iteration of the header loop
ReadHeaderLine ==
    /\ pc = "headers"
    /\ \E ioerr \in IoErrs :
          LET r == SocketReadLine(ioerr)
          IN  /\ trace' = Append(trace, Call("read_line", <<>>, r))
              /\ Advance(r.next)
              /\ IF HeaderLoopExit(r) = "return"
                 THEN Finish(ReadError(r)) /\ headers' = headers
                 ELSE IF HeaderLoopExit(r) = "break"
                 THEN pc' = "body" /\ result' = result /\ headers' = headers
                 ELSE pc' = pc /\ result' = result /\ headers' = HeaderInsert(headers, r.out)
    /\ UNCHANGED pure
    /\ UNCHANGED <<entry, url, connect_should_fail, send_should_fail, response_lines,
                   connect_calls, send_calls, stream, tcp_connects,
                   version, status, explanation>>

\* BodyResult with `socket.read_to_string().unwrap_or_default()`: a failed body
\* read yields the response parsed so far with an empty body
BodyResult_DefaultOnError(r) ==
    Ok([version |-> version, status |-> status, explanation |-> explanation,
        headers |-> headers, body |-> r.out])

\* BodyResult treating an empty body as a truncated response
BodyResult_EmptyIsError(r) ==
    IF r.ok /\ Len(r.out) > 0
    THEN Ok([version |-> version, status |-> status, explanation |-> explanation,
             headers |-> headers, body |-> r.out])
    ELSE Err(IF r.ok THEN "End of file reached" ELSE r.err)

\* what the engine returns for a read_to_string outcome
BodyResult(r) ==
    IF r.ok
    THEN Ok([version |-> version, status |-> status, explanation |-> explanation,
             headers |-> headers, body |-> r.out])
    ELSE Err(r.err)

\* let body = socket.read_to_string()?; Ok(HttpResponse { .. })
ReadBody ==
    /\ pc = "body"
    /\ \E ioerr \in IoErrs :
          LET r == SocketReadToString(ioerr)
          IN  /\ trace' = Append(trace, Call("read_to_string", <<>>, r))
              /\ Advance(r.next)
              /\ Finish(BodyResult(r))
    /\ UNCHANGED pure
    /\ UNCHANGED <<entry, url, connect_should_fail, send_should_fail, response_lines,
                   connect_calls, send_calls, stream, tcp_connects,
                   version, status, explanation, headers>>

\* the request variables while no request is made
RequestIdle ==
    /\ url = [scheme |-> "Http", host |-> <<>>, path |-> <<"/">>]
    /\ connect_should_fail = FALSE
    /\ send_should_fail = FALSE
    /\ response_lines = <<>>
    /\ current_line_index = 0
    /\ connect_calls = <<>>
    /\ send_calls = <<>>
    /\ tcp_connects = <<>>
    /\ version = <<>>
    /\ status = 0
    /\ explanation = <<>>
    /\ headers = EmptyMap
    /\ result = NoResult

\* the pure-function variables while neither function is called
PureIdle ==
    /\ raw_url = <<>>
    /\ parsed = NoParse
    /\ text = <<>>
    /\ stripped = <<>>

Next ==
    \/ RequestConnect
    \/ Connect
    \/ Send
    \/ ReadStatusLine
    \/ ReadHeaderLine
    \/ ReadBody

Spec == Init /\ [][Next]_vars

-----------------------------------------------------------------------------
(* Url::new *)

\* longest raw URL, counted in pieces of UrlPieces
MaxUrlPieces == 4

\* the pieces raw URLs are put together from
UrlPieces ==
    { <<"h", "t", "t", "p">>, <<"h", "t", "t", "p", "s">>,
      <<"H", "T", "T", "P">>, <<"H", "t", "t", "p", "s">>,
      <<":", "/", "/">>, <<":">>, <<"/">>, <<"a">>, <<"?", "#", "/">> }

RawUrls == { Flatten(q) : q \in SeqsUpTo(UrlPieces, MaxUrlPieces) }

\* str::find(pat) for a pattern of several characters: 1-based index of the
\* first occurrence, 0 for None
FindSub(s, pat) ==
    LET hits == { i \in 1..(Len(s) - Len(pat) + 1) : SubSeq(s, i, i + Len(pat) - 1) = pat }
    IN  IF hits = {} THEN 0 ELSE CHOOSE i \in hits : \A j \in hits : i <= j

\* raw_url.splitn(2, "://").collect()
SplitScheme(raw) ==
    LET k == FindSub(raw, <<":", "/", "/">>)
    IN  IF k = 0 THEN <<raw>>
        ELSE <<SubSeq(raw, 1, k - 1), SubSeq(raw, k + 3, Len(raw))>>

\* SchemeOf matching the scheme name without regard to case
SchemeOf_IgnoreCase(name) ==
    IF ToLowercase(name) = <<"h", "t", "t", "p">> THEN "Http"
    ELSE IF ToLowercase(name) = <<"h", "t", "t", "p", "s">> THEN "Https"
    ELSE ""

\* the match on parts[0]: the Scheme, "" for the arm that returns the error
SchemeOf(name) ==
    IF name = <<"h", "t", "t", "p">> THEN "Http"
    ELSE IF name = <<"h", "t", "t", "p", "s">> THEN "Https"
    ELSE ""

\* remaining.splitn(2, '/').collect()
SplitPath(remaining) ==
    LET k == Find(remaining, "/")
    IN  IF k = 0 THEN <<remaining>>
        ELSE <<SubSeq(remaining, 1, k - 1), SubSeq(remaining, k + 1, Len(remaining))>>

\* HostOf cutting the host at a port separator as well
HostOf_StripPort(remaining) ==
    LET h == SplitPath(remaining)[1]
    IN  IF Find(h, ":") = 0 THEN h ELSE SubSeq(h, 1, Find(h, ":") - 1)

\* let host = parts[0].to_string()
HostOf(remaining) == SplitPath(remaining)[1]

\* PathOf without the leading slash put back
PathOf_NoSlash(remaining) ==
    IF Len(SplitPath(remaining)) > 1 THEN SplitPath(remaining)[2] ELSE <<"/">>

\* let path = if parts.len() > 1 { format!("/{}", parts[1]) } else { "/" }
PathOf(remaining) ==
    IF Len(SplitPath(remaining)) > 1 THEN <<"/">> \o SplitPath(remaining)[2] ELSE <<"/">>

\* UrlNew taking an input without "://" as an http host and path
UrlNew_DefaultScheme(raw) ==
    LET parts == SplitScheme(raw)
        remaining == parts[Len(parts)]
    IN  IF Len(parts) = 2 /\ SchemeOf(parts[1]) = ""
        THEN ParseErr(<<"U", "n", "s", "u", "p", "p", "o", "r", "t", "e", "d", " ", "s", "c", "h", "e", "m", "e", ":", " ">> \o parts[1])
        ELSE ParseOk([scheme |-> IF Len(parts) = 2 THEN SchemeOf(parts[1]) ELSE "Http",
                      host |-> HostOf(remaining),
                      path |-> PathOf(remaining)])

\* Url::new
UrlNew(raw) ==
    LET parts == SplitScheme(raw)
    IN  IF Len(parts) # 2
        THEN ParseErr(<<"I", "n", "v", "a", "l", "i", "d", " ", "U", "R", "L", ":", " ", "m", "i", "s", "s", "i", "n", "g", " ", "s", "c", "h", "e", "m", "e">>)
        ELSE IF SchemeOf(parts[1]) = ""
        THEN ParseErr(<<"U", "n", "s", "u", "p", "p", "o", "r", "t", "e", "d", " ", "s", "c", "h", "e", "m", "e", ":", " ">> \o parts[1])
        ELSE ParseOk([scheme |-> SchemeOf(parts[1]),
                      host |-> HostOf(parts[2]),
                      path |-> PathOf(parts[2])])

UrlInit ==
    /\ entry = "Url::new"
    /\ pc = "new"
    /\ raw_url \in RawUrls
    /\ parsed = NoParse
    /\ text = <<>>
    /\ stripped = <<>>
    /\ stream = <<>>
    /\ pos = 0
    /\ trace = <<>>
    /\ RequestIdle

\* a caller's Url::new(raw_url)
UrlNewCall ==
    /\ pc = "new"
    /\ parsed' = UrlNew(raw_url)
    /\ pc' = "done"
    /\ UNCHANGED <<entry, raw_url, text, stripped, stream, pos, trace>>
    /\ UNCHANGED request_vars

UrlNext == UrlNewCall

UrlSpec == UrlInit /\ [][UrlNext]_vars

-----------------------------------------------------------------------------
(* strip_html_tags *)

\* longest text given to strip_html_tags, the examples of its tests aside
MaxTextLen == 4

\* the characters of the texts: the two brackets and two others
StripChars == {"<", ">", "a", "/"}

\* the texts stripped: every short text, and a tagged text of the tests' kind
Texts == SeqsUpTo(StripChars, MaxTextLen) \cup { <<"<", "a", ">", "x", "<", "/", "a", ">">> }

\* StripStep keeping a ">" that closes no tag
StripStep_KeepStrayClose(st, c) ==
    IF c = "<" THEN [st EXCEPT !.in_tag = TRUE]
    ELSE IF c = ">" /\ st.in_tag THEN [st EXCEPT !.in_tag = FALSE]
    ELSE IF ~st.in_tag THEN [st EXCEPT !.result = Append(st.result, c)]
    ELSE st

\* StripStep taking a "<" inside a tag as a literal "<"
StripStep_EscapedOpen(st, c) ==
    IF c = "<" /\ ~st.in_tag THEN [st EXCEPT !.in_tag = TRUE]
    ELSE IF c = "<" THEN [st EXCEPT !.result = Append(st.result, c)]
    ELSE IF c = ">" THEN [st EXCEPT !.in_tag = FALSE]
    ELSE IF ~st.in_tag THEN [st EXCEPT !.result = Append(st.result, c)]
    ELSE st

\* the match on one character, on the locals result and in_tag
StripStep(st, c) ==
    IF c = "<" THEN [st EXCEPT !.in_tag = TRUE]
    ELSE IF c = ">" THEN [st EXCEPT !.in_tag = FALSE]
    ELSE IF ~st.in_tag THEN [st EXCEPT !.result = Append(st.result, c)]
    ELSE st

\* the for loop over text.chars(), from result = "" and in_tag = false
RECURSIVE StripLoop(_)
StripLoop(t) ==
    IF Len(t) = 0 THEN [result |-> <<>>, in_tag |-> FALSE]
    ELSE StripStep(StripLoop(SubSeq(t, 1, Len(t) - 1)), t[Len(t)])

\* strip_html_tags
StripHtmlTags(t) == StripLoop(t).result

StripInit ==
    /\ entry = "strip_html_tags"
    /\ pc = "strip"
    /\ text \in Texts
    /\ stripped = <<>>
    /\ raw_url = <<>>
    /\ parsed = NoParse
    /\ stream = <<>>
    /\ pos = 0
    /\ trace = <<>>
    /\ RequestIdle

\* a caller's strip_html_tags(text)
StripCall ==
    /\ pc = "strip"
    /\ stripped' = StripHtmlTags(text)
    /\ pc' = "stripped"
    /\ UNCHANGED <<entry, text, raw_url, parsed, stream, pos, trace>>
    /\ UNCHANGED request_vars

\* the stripper run again on the text it returned
RestripCall ==
    /\ pc = "stripped"
    /\ text' = stripped
    /\ stripped' = StripHtmlTags(stripped)
    /\ pc' = "restripped"
    /\ UNCHANGED <<entry, raw_url, parsed, stream, pos, trace>>
    /\ UNCHANGED request_vars

StripNext ==
    \/ StripCall
    \/ RestripCall

StripSpec == StripInit /\ [][StripNext]_vars

-----------------------------------------------------------------------------
(* HttpSocket on its own: read_line and read_to_string called in any order on a
   stream of bytes *)

\* the bytes of the streams: a letter, the two line-terminator bytes and the
\* bytes from 0x80 on
SocketBytes == {"a", "\r", "\n"} \cup HighBytes

SocketInit ==
    /\ entry = "socket"
    /\ pc = "socket"
    /\ stream \in SeqsUpTo(SocketBytes, MaxStreamLen)
    /\ pos = 0
    /\ trace = <<>>
    /\ RequestIdle
    /\ PureIdle

\* a caller's socket.read_line(); it stops using the socket at an I/O error
ReadLineCall ==
    /\ pc = "socket"
    /\ Len(trace) < MaxSocketCalls
    /\ \E ioerr \in {FALSE, TRUE} :
          LET r == HttpSocketReadLine(ioerr)
          IN  /\ trace' = Append(trace, Call("read_line", <<>>, r))
              /\ pos' = r.next
              /\ pc' = IF ioerr THEN "done" ELSE pc
    /\ UNCHANGED <<entry, stream>>
    /\ UNCHANGED request_vars
    /\ UNCHANGED pure

\* a caller's socket.read_to_string(); it stops using the socket at an I/O error
ReadToStringCall ==
    /\ pc = "socket"
    /\ Len(trace) < MaxSocketCalls
    /\ \E ioerr \in {FALSE, TRUE} :
          LET r == HttpSocketReadToString(ioerr)
          IN  /\ trace' = Append(trace, Call("read_to_string", <<>>, r))
              /\ pos' = r.next
              /\ pc' = IF ioerr THEN "done" ELSE pc
    /\ UNCHANGED <<entry, stream>>
    /\ UNCHANGED request_vars
    /\ UNCHANGED pure

SocketNext ==
    \/ ReadLineCall
    \/ ReadToStringCall

SocketSpec == SocketInit /\ [][SocketNext]_vars


-----------------------------------------------------------------------------
(* Properties *)

\* positions of the calls of op in the trace
CallsOf(op) == { i \in DOMAIN trace : trace[i].op = op }

\* the errors only connect_http / connect_https produce
ProviderErrors ==
    {"Failed to connect", "Failed to create TLS connector",
     "Failed to establish TLS connection"}

\* C1: when the transport's connect fails, the request has returned exactly that
\* error and connect is the only transport call ever made (nothing is sent or
\* read); when connect_http / connect_https fails in request(), the request
\* returns that failure with no transport call made at all.
C1_ConnectFailureAborts ==
    /\ \A i \in CallsOf("connect") :
          ~trace[i].ok =>
             /\ pc = "done"
             /\ result = Err(trace[i].err)
             /\ Len(trace) = 1
             /\ send_calls = <<>>
             /\ current_line_index = 0
             /\ pos = 0
    /\ (result.tag = "Err" /\ result.err \in ProviderErrors) =>
          /\ entry = "request"
          /\ pc = "done"
          /\ trace = <<>>

\* C1 witness: the scripted connect failure has been returned
C1_Witness ==
    /\ entry = "test"
    /\ connect_should_fail
    /\ pc = "done"
    /\ result = Err("Connection failed")
    /\ Len(connect_calls) = 1

\* the request text the wire protocol prescribes for the Url requested
ExpectedRequest ==
    <<"G", "E", "T", " ">> \o url.path
        \o <<" ", "H", "T", "T", "P", "/", "1", ".", "0", "\r", "\n">>
        \o <<"H", "o", "s", "t", ":", " ">> \o url.host
        \o <<"\r", "\n", "\r", "\n">>

\* C2: send is called at most once, always with exactly
\* "GET {path} HTTP/1.0\r\nHost: {host}\r\n\r\n", and once connect has succeeded
\* and the engine is past its send step it has been called exactly once, whatever
\* was read afterwards.
C2_SendsExactlyOneRequest ==
    /\ Cardinality(CallsOf("send")) <= 1
    /\ \A i \in CallsOf("send") : trace[i].arg = ExpectedRequest
    /\ \A i \in DOMAIN send_calls : send_calls[i] = ExpectedRequest
    /\ ((\E i \in CallsOf("connect") : trace[i].ok) /\ pc # "send") =>
          Cardinality(CallsOf("send")) = 1
    /\ (entry = "test" /\ pc \notin {"connect", "send"} /\ ~connect_should_fail) =>
          Len(send_calls) = 1

\* C2 witness: a whole response was read after the one request was sent
C2_Witness ==
    /\ result.tag = "Ok"
    /\ Cardinality(CallsOf("send")) = 1
    /\ Cardinality(CallsOf("read_line")) >= 2
    /\ url.path = <<"/", "p">>

\* C3: when send fails, the request has returned exactly that error, the result
\* carries no response, and the transport calls are connect once and send once,
\* with no read_line or read_to_string.
C3_SendFailureAborts ==
    \A i \in CallsOf("send") :
       ~trace[i].ok =>
          /\ pc = "done"
          /\ result = Err(trace[i].err)
          /\ result.response = NoResponse
          /\ Len(trace) = 2
          /\ trace[1].op = "connect"
          /\ i = 2
          /\ CallsOf("read_line") = {}
          /\ CallsOf("read_to_string") = {}
          /\ current_line_index = 0
          /\ pos = 0
          /\ (entry = "test" => Len(connect_calls) = 1 /\ Len(send_calls) = 1)

\* C3 witness: the scripted send failure has been returned
C3_Witness ==
    /\ entry = "test"
    /\ send_should_fail
    /\ pc = "done"
    /\ result = Err("Send failed")


\* positions of the read_line calls that followed the first one (the header reads)
HeaderReads == { i \in CallsOf("read_line") : \E j \in CallsOf("read_line") : j < i }

\* position of the first read_line call (the status-line read); 0 when there is none
StatusRead ==
    IF CallsOf("read_line") = {} THEN 0
    ELSE CHOOSE i \in CallsOf("read_line") : \A j \in CallsOf("read_line") : i <= j

\* C4: when a read_line fails after the status line was read and before any
\* header read returned exactly "\r\n", the request has returned an error (that
\* of the failed read) with no response, and read_to_string was never called.
C4_EofBeforeTerminatorIsError ==
    \A i \in HeaderReads :
       (/\ ~trace[i].ok
        /\ \A j \in HeaderReads : j < i => trace[j].out # CRLF) =>
          /\ pc = "done"
          /\ result.tag = "Err"
          /\ result = Err(trace[i].err)
          /\ result.response = NoResponse
          /\ CallsOf("read_to_string") = {}

\* C4 witness: the stream ended after header lines had been stored
C4_Witness ==
    /\ pc = "done"
    /\ result.tag = "Err"
    /\ DOMAIN headers # {}
    /\ Len(trace) > 0
    /\ trace[Len(trace)].op = "read_line"
    /\ trace[Len(trace)].err \in {"No more lines to read", "End of file reached"}

\* number of bytes the read_line calls among the first n calls returned
RECURSIVE LineBytes(_)
LineBytes(n) ==
    IF n = 0 THEN 0
    ELSE LineBytes(n - 1) + (IF trace[n].op = "read_line" THEN Len(trace[n].out) ELSE 0)

\* what the peer's data holds beyond the lines the first n calls returned
RemainingAfter(n) ==
    IF entry = "test"
    THEN Flatten(SubSeq(response_lines,
                        Cardinality({ j \in CallsOf("read_line") : j <= n /\ trace[j].ok }) + 1,
                        Len(response_lines)))
    ELSE SubSeq(stream, LineBytes(n) + 1, Len(stream))

NumSpaces(s) == Cardinality({ i \in DOMAIN s : s[i] = " " })

\* C6: when the status line holds fewer than two spaces (fewer than three
\* space-separated tokens), the request has failed with "Invalid HTTP status line",
\* whatever the tokens are, and no further line was read.
C6_ShortStatusLineIsInvalid ==
    (StatusRead # 0 /\ trace[StatusRead].ok /\ NumSpaces(trace[StatusRead].out) < 2) =>
       /\ pc = "done"
       /\ result = Err("Invalid HTTP status line")
       /\ CallsOf("read_line") = {StatusRead}
       /\ CallsOf("read_to_string") = {}

\* C6 witness: the two-token line with a non-numeric second token was rejected
C6_Witness ==
    /\ pc = "done"
    /\ result = Err("Invalid HTTP status line")
    /\ StatusRead # 0
    /\ trace[StatusRead].out = <<"V", " ", "A", "\r", "\n">>


\* the tokens of the status line that was read
StatusTokens == Split(TrimEndMatchesCRLF(trace[StatusRead].out), " ")

\* a non-empty run of decimal digits whose value fits an unsigned 16-bit integer
IsDecimalU16(t) == Len(t) > 0 /\ AllDigits(t) /\ DigitsValue(t) <= 65535

ToUpperChar(c) == IF IndexIn(c, Lower) > 0 THEN Upper[IndexIn(c, Lower)] ELSE c

\* the line with the letters of its header name (the text before its first
\* colon) in upper case; a line without a colon has no name
UpperName(line) ==
    [i \in 1..Len(line) |-> IF i < Find(line, ":") THEN ToUpperChar(line[i]) ELSE line[i]]

\* the same with the name in lower case
LowerName(line) ==
    [i \in 1..Len(line) |-> IF i < Find(line, ":") THEN ToLowerChar(line[i]) ELSE line[i]]

\* the header lines (terminator excluded) among the first n calls, in order
RECURSIVE HeaderLinesRead(_)
HeaderLinesRead(n) ==
    IF n = 0 THEN <<>>
    ELSE IF n \in HeaderReads /\ trace[n].ok /\ trace[n].out # CRLF
    THEN Append(HeaderLinesRead(n - 1), trace[n].out)
    ELSE HeaderLinesRead(n - 1)

\* the mapping the header loop builds from a sequence of header lines
RECURSIVE FoldHeaders(_)
FoldHeaders(lines) ==
    IF Len(lines) = 0 THEN EmptyMap
    ELSE HeaderInsert(FoldHeaders(SubSeq(lines, 1, Len(lines) - 1)), lines[Len(lines)])

\* C8: every key of the headers mapping is lower-case, and the mapping is the
\* one the same header lines give with their names written in upper case or in
\* lower case: responses that differ only in the case of header names give
\* equal mappings.
C8_HeaderNamesCaseFolded ==
    LET lines == HeaderLinesRead(Len(trace))
        upper == [i \in 1..Len(lines) |-> UpperName(lines[i])]
        lower == [i \in 1..Len(lines) |-> LowerName(lines[i])]
    IN  /\ \A k \in DOMAIN headers : \A i \in 1..Len(k) : IndexIn(k[i], Upper) = 0
        /\ headers = FoldHeaders(upper)
        /\ headers = FoldHeaders(lower)
        /\ result.tag = "Ok" => result.response.headers = FoldHeaders(upper)

\* C8 witness: a response whose header names hold upper-case letters was returned
C8_Witness ==
    /\ result.tag = "Ok"
    /\ <<"b">> \in DOMAIN result.response.headers
    /\ <<"a">> \in DOMAIN result.response.headers
    /\ \E j \in HeaderReads : trace[j].out = <<"A", ":", "1", "\r", "\n">>

\* C9: every connect made during a request uses the port of the Url's scheme,
\* 80 for Http and 443 for Https, in the provider construction of request() and
\* in the Socket::connect call of make_request_with_socket alike.
C9_PortFixedByScheme ==
    LET port == IF url.scheme = "Http" THEN 80 ELSE 443
    IN  /\ \A i \in DOMAIN tcp_connects : tcp_connects[i][2] = port
        /\ \A i \in CallsOf("connect") : trace[i].arg[2] = port
        /\ \A i \in DOMAIN connect_calls : connect_calls[i][2] = port

\* C10: a response is returned only when every transport call succeeded and the
\* calls were connect, send, a status-line read that parsed, header reads ending
\* with the "\r\n" terminator, and read_to_string; the response then holds all
\* the parsed parts. In every other finished request the result is an error
\* carrying no response.
C10_ResponseOnlyAfterAllStages ==
    /\ pc = "done" => result.tag \in {"Ok", "Err"}
    /\ pc # "done" => result = NoResult
    /\ result.tag # "Ok" => result.response = NoResponse
    /\ (\E i \in DOMAIN trace : ~trace[i].ok) => result.tag = "Err"
    /\ result.tag = "Ok" =>
          LET n == Len(trace)
          IN  /\ pc = "done"
              /\ n >= 5
              /\ \A i \in DOMAIN trace : trace[i].ok
              /\ trace[1].op = "connect"
              /\ trace[2].op = "send"
              /\ StatusRead = 3
              /\ Len(StatusTokens) >= 3
              /\ ParseU16(StatusTokens[2]).ok
              /\ \A i \in 4..(n - 1) : trace[i].op = "read_line"
              /\ trace[n - 1].out = CRLF
              /\ trace[n].op = "read_to_string"
              /\ result.response =
                    [version |-> StatusTokens[1],
                     status |-> ParseU16(StatusTokens[2]).val,
                     explanation |-> Join(SubSeq(StatusTokens, 3, Len(StatusTokens)), " "),
                     headers |-> FoldHeaders(HeaderLinesRead(n)),
                     body |-> trace[n].out]

\* C10 witness: a response with headers and a body was returned
C10_Witness ==
    /\ result.tag = "Ok"
    /\ DOMAIN result.response.headers # {}
    /\ Len(result.response.body) > 0


\* C11: when the first read_line of a request fails, the request has returned
\* exactly the error value read_line produced, and nothing else was read.
C11_StatusReadErrorVerbatim ==
    (StatusRead # 0 /\ ~trace[StatusRead].ok) =>
       /\ pc = "done"
       /\ result = Err(trace[StatusRead].err)
       /\ StatusRead = Len(trace)
       /\ CallsOf("read_line") = {StatusRead}

\* C11 witness: the stream closed before any status byte arrived
C11_Witness ==
    /\ pc = "done"
    /\ StatusRead # 0
    /\ ~trace[StatusRead].ok
    /\ \/ entry = "test" /\ response_lines = <<>> /\ result = Err("No more lines to read")
       \/ entry = "request" /\ stream = <<>> /\ result = Err("End of file reached")


\* the stage at which a finished, failed request failed, read off the calls made
FailedStage ==
    IF trace = <<>> THEN "connect"
    ELSE LET last == trace[Len(trace)]
         IN  IF last.ok THEN "status"
             ELSE IF last.op = "connect" THEN "connect"
             ELSE IF last.op = "send" THEN "send"
             ELSE IF last.op = "read_to_string" THEN "body"
             ELSE IF Len(trace) = StatusRead THEN "status"
             ELSE "headers"

\* the stage an error value tells its receiver: the messages of read_line name
\* no stage
StageOfError(e) ==
    IF e \in ProviderErrors \cup {"Connection failed"} THEN "connect"
    ELSE IF e \in {"Send failed", "Failed to send data"} THEN "send"
    ELSE IF e \in {"Invalid HTTP status line", "Invalid HTTP status code"} THEN "status"
    ELSE IF e = "Failed to read to string" THEN "body"
    ELSE "none"

\* the error value of an end of stream met by the status-line read
StatusEofError == IF entry = "test" THEN "No more lines to read" ELSE "End of file reached"

\* C12 (as claimed): every error of a finished request tells the stage at which
\* it occurred, and an end of stream in the header block gives an error value
\* different from the one an end of stream in the status line gives.
C12_ErrorsCarryStage ==
    (pc = "done" /\ result.tag = "Err") =>
       /\ StageOfError(result.err) = FailedStage
       /\ FailedStage = "headers" => result.err # StatusEofError

\* C12 (amended): every error of a finished request is the message of the failed
\* transport call or parse step, unchanged and without a stage; the messages of
\* connect, send, status-line parse and body failures tell their stage, but a
\* failed read_line gives the same value in the status line and in the header
\* block (the end-of-stream value of the socket, or its I/O error).
C12_ErrorsAreVerbatim ==
    (pc = "done" /\ result.tag = "Err") =>
       /\ \/ trace = <<>> /\ result.err \in ProviderErrors
          \/ trace # <<>> /\ ~trace[Len(trace)].ok /\ result.err = trace[Len(trace)].err
          \/ /\ trace # <<>>
             /\ trace[Len(trace)].ok
             /\ Len(trace) = StatusRead
             /\ result.err \in {"Invalid HTTP status line", "Invalid HTTP status code"}
       /\ (trace # <<>> /\ ~trace[Len(trace)].ok /\ trace[Len(trace)].op = "read_line") =>
             /\ FailedStage \in {"status", "headers"}
             /\ result.err \in {StatusEofError, "Failed to read line"}
             /\ StageOfError(result.err) = "none"
       /\ ~(trace # <<>> /\ ~trace[Len(trace)].ok /\ trace[Len(trace)].op = "read_line") =>
             StageOfError(result.err) = FailedStage

\* C12 witness: an end of stream in the header block returned the value an end of
\* stream in the status line returns
C12_Witness ==
    /\ pc = "done"
    /\ result.tag = "Err"
    /\ FailedStage = "headers"
    /\ result.err = StatusEofError


\* number of bytes of the stream the first n calls took: read_line one byte for
\* each character it returned, read_to_string all that was left unless the read
\* itself failed
RECURSIVE BytesReturned(_)
BytesReturned(n) ==
    IF n = 0 THEN 0
    ELSE IF trace[n].op = "read_to_string" /\ trace[n].err # "Failed to read to string"
    THEN Len(stream)
    ELSE BytesReturned(n - 1) + Len(trace[n].out)

\* what the stream still held when call i was made
StreamBefore(i) == SubSeq(stream, BytesReturned(i - 1) + 1, Len(stream))

\* C13: HttpSocket::read_line at the end of the stream: with no byte left it
\* returns the error "End of file reached"; with bytes left it succeeds, and when
\* they hold no newline it returns all of them as a line without a trailing
\* newline.
C13_ReadLineEofPolicy ==
    \A i \in CallsOf("read_line") :
       trace[i].err # "Failed to read line" =>
          LET rest == StreamBefore(i)
          IN  /\ Len(rest) = 0 => ~trace[i].ok /\ trace[i].err = "End of file reached"
              /\ Len(rest) > 0 => trace[i].ok /\ Len(trace[i].out) > 0
              /\ (Len(rest) > 0 /\ \A k \in 1..Len(rest) : rest[k] # LF) =>
                    /\ Len(trace[i].out) = Len(rest)
                    /\ \A k \in 1..Len(rest) :
                          rest[k] \notin HighBytes => trace[i].out[k] = rest[k]
                    /\ trace[i].out[Len(trace[i].out)] # LF

\* C13 witness: a partial line was returned, and the next read_line met the end
\* of the stream
C13_Witness ==
    \E i \in CallsOf("read_line") :
       /\ i > 1
       /\ trace[i - 1].op = "read_line"
       /\ trace[i - 1].ok
       /\ trace[i - 1].out[Len(trace[i - 1].out)] # LF
       /\ trace[i].err = "End of file reached"


\* the raw URL holds "://" somewhere
HasSeparator(raw) ==
    \E i \in 1..(Len(raw) - 2) : raw[i] = ":" /\ raw[i + 1] = "/" /\ raw[i + 2] = "/"

\* C14: for every raw string without "://", Url::new fails with
\* "Invalid URL: missing scheme", whatever else the string holds.
C14_MissingScheme ==
    (pc = "done" /\ ~HasSeparator(raw_url)) =>
       parsed = ParseErr(<<"I", "n", "v", "a", "l", "i", "d", " ", "U", "R", "L", ":", " ", "m", "i", "s", "s", "i", "n", "g", " ", "s", "c", "h", "e", "m", "e">>)

\* C14 witness: a string with a colon and slashes but no "://" was rejected
C14_Witness ==
    /\ pc = "done"
    /\ ~HasSeparator(raw_url)
    /\ \E i \in 1..Len(raw_url) : raw_url[i] = ":"
    /\ \E i \in 1..Len(raw_url) : raw_url[i] = "/"
    /\ parsed.tag = "Err"

\* position of the first "://" of a raw URL that has one
FirstSeparator(raw) ==
    CHOOSE i \in 1..(Len(raw) - 2) :
       /\ raw[i] = ":" /\ raw[i + 1] = "/" /\ raw[i + 2] = "/"
       /\ \A j \in 1..(i - 1) : ~(raw[j] = ":" /\ raw[j + 1] = "/" /\ raw[j + 2] = "/")

\* the text before the first "://"
SchemeText(raw) == SubSeq(raw, 1, FirstSeparator(raw) - 1)

\* the text after the first "://"
AfterSeparator(raw) == SubSeq(raw, FirstSeparator(raw) + 3, Len(raw))

FirstSlash(t) ==
    IF \A i \in 1..Len(t) : t[i] # "/" THEN 0
    ELSE CHOOSE i \in 1..Len(t) : t[i] = "/" /\ \A j \in 1..(i - 1) : t[j] # "/"

\* C16: the path of every Url returned begins with "/"; it is exactly "/" when
\* the text after "://" has no "/" or ends right after its first "/", and
\* otherwise "/" followed by everything after that first "/".
C16_PathBeginsWithSlash ==
    (pc = "done" /\ parsed.tag = "Ok") =>
       LET rem == AfterSeparator(raw_url)
           k == FirstSlash(rem)
           path == parsed.url.path
       IN  /\ Len(path) >= 1
           /\ path[1] = "/"
           /\ (k = 0 \/ k = Len(rem)) => path = <<"/">>
           /\ (k # 0 /\ k < Len(rem)) => path = <<"/">> \o SubSeq(rem, k + 1, Len(rem))

\* C16 witness: "?", "#" and a further "/" were kept in the path
C16_Witness ==
    /\ pc = "done"
    /\ parsed.tag = "Ok"
    /\ parsed.url.path = <<"/", "?", "#", "/">>

\* the name of a Scheme as written in a URL
SchemeName(sch) == IF sch = "Http" THEN <<"h", "t", "t", "p">> ELSE <<"h", "t", "t", "p", "s">>

\* C17: the host of every Url returned is the text between the first "://" and
\* the next "/" (or the end), it holds no "/", it may be empty, and nothing is
\* lost: scheme name, "://", host and path give back the raw input, with one "/"
\* added when the input has none after the separator.
C17_HostAndRoundTrip ==
    (pc = "done" /\ parsed.tag = "Ok") =>
       LET rem == AfterSeparator(raw_url)
           k == FirstSlash(rem)
           u == parsed.url
           back == SchemeName(u.scheme) \o <<":", "/", "/">> \o u.host \o u.path
       IN  /\ u.host = IF k = 0 THEN rem ELSE SubSeq(rem, 1, k - 1)
           /\ \A i \in 1..Len(u.host) : u.host[i] # "/"
           /\ k # 0 => back = raw_url
           /\ k = 0 => back = raw_url \o <<"/">>

\* C17 witness: an empty host followed by a path was accepted
C17_Witness ==
    /\ pc = "done"
    /\ parsed.tag = "Ok"
    /\ parsed.url.host = <<>>
    /\ Len(parsed.url.path) > 1


\* the in-tag flag when character i of t is seen: a "<" came before it with no
\* ">" in between
InTagAt(t, i) ==
    \E j \in 1..(i - 1) : t[j] = "<" /\ \A k \in (j + 1)..(i - 1) : t[k] # ">"

\* the characters among the first n of t that are output: neither bracket, seen
\* with the flag false, in input order
RECURSIVE KeptOf(_, _)
KeptOf(t, n) ==
    IF n = 0 THEN <<>>
    ELSE IF t[n] \notin {"<", ">"} /\ ~InTagAt(t, n)
    THEN Append(KeptOf(t, n - 1), t[n])
    ELSE KeptOf(t, n - 1)

\* position of the last "<" of t, 0 when it has none
LastOpen(t) ==
    IF \A i \in 1..Len(t) : t[i] # "<" THEN 0
    ELSE CHOOSE i \in 1..Len(t) : t[i] = "<" /\ \A j \in (i + 1)..Len(t) : t[j] # "<"

\* C18: strip_html_tags outputs, in input order, exactly the characters that
\* are no bracket and are seen with the in-tag flag false ("<" sets it, ">"
\* clears it, also when no tag is open); so "<a>x</a>" gives "x", "" gives "",
\* a text without brackets is returned as it is, and when no ">" follows the last
\* "<" nothing after that "<" is output.
C18_StripIsOnePassScan ==
    pc = "stripped" =>
       /\ stripped = KeptOf(text, Len(text))
       /\ text = <<"<", "a", ">", "x", "<", "/", "a", ">">> => stripped = <<"x">>
       /\ text = <<>> => stripped = <<>>
       /\ (\A i \in 1..Len(text) : text[i] \notin {"<", ">"}) => stripped = text
       /\ (LastOpen(text) # 0 /\ \A j \in LastOpen(text)..Len(text) : text[j] # ">") =>
             stripped = KeptOf(text, LastOpen(text) - 1)

\* C18 witness: the tagged example was stripped to its text
C18_Witness ==
    /\ pc = "stripped"
    /\ text = <<"<", "a", ">", "x", "<", "/", "a", ">">>
    /\ stripped = <<"x">>

\* C19: stripping is idempotent: the stripper run on its own output returns that
\* output unchanged, and its output never holds "<" or ">".
C19_StripIdempotent ==
    /\ pc = "restripped" => stripped = text
    /\ pc \in {"stripped", "restripped"} =>
          \A i \in 1..Len(stripped) : stripped[i] \notin {"<", ">"}

\* C19 witness: a text that lost a tag was stripped a second time
C19_Witness ==
    /\ pc = "restripped"
    /\ text = <<"x">>
    /\ stripped = <<"x">>


\* positions of the header reads that returned exactly "\r\n"
TerminatorReads == { i \in HeaderReads : trace[i].ok /\ trace[i].out = CRLF }

\* C20: header parsing stops at the first line that is exactly "\r\n" and at no
\* other: after a header read returning "\r\n" no line is read again and the
\* next call is read_to_string; after a header read returning any other line,
\* a blank line ended by a bare "\n" included, the next call is read_line again;
\* read_to_string is only ever called right after the terminator; a request
\* that ends without a terminator read ends in an error; and the body is all
\* that the stream held after the terminator, none of it stored as a header.
C20_HeadersEndAtExactCRLF ==
    /\ \A i \in HeaderReads :
          trace[i].ok =>
             IF trace[i].out = CRLF
             THEN /\ \A j \in CallsOf("read_line") : j <= i
                  /\ i < Len(trace) => trace[i + 1].op = "read_to_string"
                  /\ i = Len(trace) => pc = "body"
             ELSE /\ i < Len(trace) => trace[i + 1].op = "read_line"
                  /\ i = Len(trace) => pc = "headers"
    /\ \A i \in CallsOf("read_to_string") : (i - 1) \in TerminatorReads
    /\ (pc = "done" /\ TerminatorReads = {}) => result.tag = "Err"
    /\ result.tag = "Ok" =>
          \E t \in TerminatorReads :
             /\ result.response.body = RemainingAfter(t)
             /\ result.response.headers = FoldHeaders(HeaderLinesRead(t))

\* C20 witness: a blank line ended by a bare "\n" was read as a header line, the
\* loop went on to the "\r\n" line, and a header-like line after it stayed in
\* the body
C20_Witness ==
    /\ pc = "done"
    /\ result.tag = "Ok"
    /\ \E i \in HeaderReads : trace[i].ok /\ trace[i].out = <<LF>>
    /\ \E t \in TerminatorReads : trace[t + 1].op = "read_to_string"
    /\ \E i \in 1..Len(result.response.body) : result.response.body[i] = "b"
    /\ <<"b">> \notin DOMAIN result.response.headers


\* position of the first ":" of a line, 0 when it has none
FirstColon(line) ==
    IF \A i \in 1..Len(line) : line[i] # ":" THEN 0
    ELSE CHOOSE i \in 1..Len(line) : line[i] = ":" /\ \A j \in 1..(i - 1) : line[j] # ":"

\* the name of a header line that has a colon: the text before its first colon,
\* trimmed and lower-cased
LineKey(line) == ToLowercase(Trim(SubSeq(line, 1, FirstColon(line) - 1)))

\* a line without the "\r\n" it ends with
WithoutCRLF(line) ==
    IF Len(line) >= 2 /\ SubSeq(line, Len(line) - 1, Len(line)) = CRLF
    THEN SubSeq(line, 1, Len(line) - 2)
    ELSE line

\* the value of a header line that has a colon: all that follows its first colon,
\* without the line's "\r\n", trimmed
LineValue(line) == Trim(WithoutCRLF(SubSeq(line, FirstColon(line) + 1, Len(line))))

\* the header lines read so far that have a colon, in stream order
ColonLines == SelectSeq(HeaderLinesRead(Len(trace)), LAMBDA l : FirstColon(l) # 0)

\* C21: the headers mapping has one entry per name and the last occurrence wins:
\* its keys are the names (trimmed, lower-cased) of the header lines read, and
\* the value under a name is the value of the last line read with that name,
\* names that differ only in case being one name.
C21_LastHeaderWins ==
    LET lines == ColonLines
        n == Len(lines)
        key == [i \in 1..n |-> LineKey(lines[i])]
    IN  /\ DOMAIN headers = { key[i] : i \in 1..n }
        /\ \A i \in 1..n :
              (\A j \in (i + 1)..n : key[j] # key[i]) => headers[key[i]] = LineValue(lines[i])
        /\ result.tag = "Ok" => result.response.headers = headers

\* C21 witness: "a: 2" then "A:1" were read and the one entry "a" holds "1"
C21_Witness ==
    /\ result.tag = "Ok"
    /\ ColonLines = << <<"a", ":", " ", "2", "\r", "\n">>, <<"A", ":", "1", "\r", "\n">> >>
    /\ DOMAIN result.response.headers = { <<"a">> }
    /\ result.response.headers[<<"a">>] = <<"1">>

\* positions of the header reads that returned a line without colon (the
\* terminator aside)
ColonlessReads ==
    { i \in HeaderReads : trace[i].ok /\ trace[i].out # CRLF /\ FirstColon(trace[i].out) = 0 }

\* C22: a header line without colon is silently ignored: the read that returned
\* it is followed by the next read with no error raised, and the mapping is the
\* one the header lines give with the colon-less lines taken out, so such a line
\* adds no entry and changes none.
C22_ColonlessLineIgnored ==
    /\ \A i \in ColonlessReads :
          /\ i < Len(trace) => trace[i + 1].op = "read_line"
          /\ i = Len(trace) => pc = "headers" /\ result = NoResult
    /\ headers = FoldHeaders(ColonLines)
    /\ (result.tag = "Err" /\ ColonlessReads # {}) => ~trace[Len(trace)].ok

\* C22 witness: a line without colon was read after a header line and before
\* the terminator, and the request succeeded with the one entry unchanged
C22_Witness ==
    /\ result.tag = "Ok"
    /\ \E i \in ColonlessReads :
          /\ trace[i].out = <<"n", "c", "\r", "\n">>
          /\ trace[i - 1].out = <<"A", ":", "1", "\r", "\n">>
          /\ trace[i + 1].out = CRLF
    /\ DOMAIN result.response.headers = { <<"a">> }
    /\ result.response.headers[<<"a">>] = <<"1">>

\* C23: each header line is split at its first colon only: right after a line
\* with a colon is read, the mapping holds, under the text before the first
\* colon trimmed and lower-cased, everything after the first colon (later colons
\* included) without the line's "\r\n" and trimmed.
C23_SplitAtFirstColon ==
    (/\ Len(trace) \in HeaderReads
     /\ trace[Len(trace)].ok
     /\ trace[Len(trace)].out # CRLF
     /\ FirstColon(trace[Len(trace)].out) # 0) =>
       LET line == trace[Len(trace)].out
       IN  /\ LineKey(line) \in DOMAIN headers
           /\ headers[LineKey(line)] = LineValue(line)

\* C23 witness: " B : u:v " was read and stored as "b" with the value "u:v"
C23_Witness ==
    /\ Len(trace) \in HeaderReads
    /\ trace[Len(trace)].out = <<" ", "B", " ", ":", " ", "u", ":", "v", " ", "\r", "\n">>
    /\ <<"b">> \in DOMAIN headers
    /\ headers[<<"b">>] = <<"u", ":", "v">>


\* positions of the spaces of a line, and the n-th of them
SpacesOf(line) == { i \in 1..Len(line) : line[i] = " " }
NthSpace(line, n) ==
    CHOOSE i \in SpacesOf(line) : Cardinality({ j \in SpacesOf(line) : j < i }) = n - 1

\* C24: on success, version is the text of the status line before its first
\* space and explanation is exactly the text of the status line, its trailing
\* "\r\n" removed, after its second space: a reason of several words, doubled
\* spaces included, is kept unchanged.
C24_VersionAndExplanation ==
    result.tag = "Ok" =>
       LET line == WithoutCRLF(trace[StatusRead].out)
       IN  /\ Cardinality(SpacesOf(line)) >= 2
           /\ result.response.version = SubSeq(line, 1, NthSpace(line, 1) - 1)
           /\ result.response.explanation = SubSeq(line, NthSpace(line, 2) + 1, Len(line))

\* C24 witness: a request succeeded with the two-word reason "N F"
C24_Witness ==
    /\ result.tag = "Ok"
    /\ trace[StatusRead].out = <<"V", " ", "4", "0", "4", " ", "N", " ", "F", "\r", "\n">>
    /\ result.response.version = <<"V">>
    /\ result.response.explanation = <<"N", " ", "F">>


\* C25: the transport calls of a request are a prefix of: connect once, send
\* once, read_line one or more times, read_to_string once. A failed call is the
\* last call and ends the request in an error; a status line that does not
\* parse is the last line read; read_to_string is called at most once, as the
\* last call, right after the read that returned the "\r\n" terminator.
C25_CallSequence ==
    /\ \A i \in 1..Len(trace) :
          /\ i = 1 <=> trace[i].op = "connect"
          /\ i = 2 <=> trace[i].op = "send"
          /\ i >= 3 <=> trace[i].op \in {"read_line", "read_to_string"}
          /\ trace[i].op = "read_to_string" =>
                /\ i = Len(trace)
                /\ (i - 1) \in TerminatorReads
                /\ pc = "done"
          /\ ~trace[i].ok =>
                /\ i = Len(trace)
                /\ pc = "done"
                /\ result.tag = "Err"
    /\ Len(trace) > 3 => Len(StatusTokens) >= 3
    /\ (result.tag = "Err" /\ trace # <<>> /\ trace[Len(trace)].ok) =>
          Len(trace) = 3 /\ trace[3].op = "read_line"
    /\ pc = "done" <=> result.tag # "None"

\* C25 witness: a request ran through all four stages, reading a header line
\* before the terminator
C25_Witness ==
    /\ pc = "done"
    /\ result.tag = "Ok"
    /\ Len(trace) = 6
    /\ [i \in 1..6 |-> trace[i].op] =
          <<"connect", "send", "read_line", "read_line", "read_line", "read_to_string">>


\* the texts the first n calls returned, one after the other
RECURSIVE Returned(_)
Returned(n) == IF n = 0 THEN <<>> ELSE Returned(n - 1) \o trace[n].out

\* the bytes of the stream from where call i started up to and including the
\* next "\n", or up to the end of the stream
NextLineBytes(i) ==
    LET rest == StreamBefore(i)
    IN  IF \A k \in 1..Len(rest) : rest[k] # LF THEN rest
        ELSE SubSeq(rest, 1, CHOOSE k \in 1..Len(rest) :
                                 rest[k] = LF /\ \A j \in 1..(k - 1) : rest[j] # LF)

\* C26: a successful HttpSocket::read_line returns the bytes of the stream up to
\* and including the next "\n" and takes no byte beyond it, and the results of
\* successful read_line calls followed by one read_to_string, put one after the
\* other, are the content of the stream, no byte lost, duplicated or reordered.
C26_ReadsReturnTheStream ==
    /\ \A i \in CallsOf("read_line") :
          trace[i].ok => Utf8Encode(trace[i].out) = NextLineBytes(i)
    /\ (/\ trace # <<>>
        /\ trace[Len(trace)].op = "read_to_string"
        /\ trace[Len(trace)].err # "Failed to read to string"
        /\ \A i \in 1..(Len(trace) - 1) : trace[i].op = "read_line" /\ trace[i].ok) =>
          /\ trace[Len(trace)].ok
          /\ Utf8Encode(Returned(Len(trace))) = stream

====
